---- MODULE Spec2Model ----
(***************************************************************************)
(* Street aggregation of generator/streets/streets_builder.cpp:            *)
(* StreetsBuilder assembles Streets per (region, name) from a feature      *)
(* stream under one mutex (AssembleStreets, AssembleBindings) and then     *)
(* rewrites the stream (RegenerateAggregatedStreetsFeatures).              *)
(***************************************************************************)
EXTENDS Integers, Sequences, FiniteSets, TLC

VARIABLES
  phase,                     \* which pass of the builder is running
  streetsFile,               \* content of pathInStreetsTmpMwm (sequence of features)
  geoObjectsFile,            \* content of pathInGeoObjectsTmpMwm
  pending,                   \* positions of the current file not yet handed to a worker
  pc,                        \* per worker: position inside AddStreet... / AddStreetBinding
  cur,                       \* per worker: position (in the file) of the feature it holds
  segs,                      \* per worker: resolved path segments / resolved region
  si,                        \* per worker: index of the segment being inserted
  m_updateMutex,             \* owner of StreetsBuilder::m_updateMutex
  m_regions,                 \* (region id, street name) -> Street
  m_streetFeatures2Streets,  \* feature id -> Street (its key in m_regions)
  m_osmSurrogateCounter,
  minted,                    \* identities returned by NextOsmSurrogateId, in call order
  p3_pos,                    \* pass 3: position of the next feature of the stream
  processedStreets,          \* pass 3: Streets already written
  collector,                 \* pass 3: features collected into the temporary file
  emitted,                   \* pass 3: Streets handed to WriteAsAggregatedStreet, in call order
  tmpFileExists,             \* pass 3: aggregatedStreetsTmpFile is on disk
  collectorFinished,         \* pass 3: collector.Finish() has returned
  rerun,                     \* pass 3 runs for the second time
  kv_todo,                   \* export: regions of m_regions not yet visited
  streamStreetsKv,           \* export: records written so far
  regionObject               \* export: last answer of regionGetter

vars == <<phase, streetsFile, geoObjectsFile, pending, pc, cur, segs, si,
          m_updateMutex, m_regions, m_streetFeatures2Streets,
          m_osmSurrogateCounter, minted, p3_pos, processedStreets, collector,
          emitted, tmpFileExists, collectorFinished, rerun, kv_todo,
          streamStreetsKv, regionObject>>

-----------------------------------------------------------------------------
(* Bounds of the model. *)

NumWorkers == 2
MaxStreets == 3
MaxGeoObjects == 1

Workers == 1..NumWorkers
NoWorker == 0

-----------------------------------------------------------------------------
(* Small helpers on sequences and maps. *)

EmptyMap == <<>>

Put(f, k, v) == IF k \in DOMAIN f THEN [f EXCEPT ![k] = v] ELSE (k :> v) @@ f

Range(s) == {s[i] : i \in DOMAIN s}

NoDup(s) == \A i, j \in DOMAIN s : i # j => s[i] # s[j]

RECURSIVE SeqOfPositions(_, _)
\* The elements of sequence u at the positions of set S, in the order of u.
SeqOfPositions(u, S) ==
  IF S = {} THEN <<>>
  ELSE LET m == CHOOSE x \in S : \A y \in S : x >= y
       IN  Append(SeqOfPositions(u, S \ {m}), u[m])

-----------------------------------------------------------------------------
(* Identities (base::GeoObjectId): a type tag and a serial number. *)

OsmId(type, serial) == [type |-> type, serial |-> serial]

IsSurrogate(id) == id.type = "OsmSurrogate"

TypeRank(t) == IF t = "OsmSurrogate" THEN 0 ELSE IF t = "OsmNode" THEN 1 ELSE 2

IdLess(a, b) ==
  \/ TypeRank(a.type) < TypeRank(b.type)
  \/ TypeRank(a.type) = TypeRank(b.type) /\ a.serial < b.serial

MinId(S) == CHOOSE a \in S : \A b \in S : a = b \/ IdLess(a, b)

RECURSIVE SortedIds(_)
SortedIds(S) == IF S = {} THEN <<>> ELSE <<MinId(S)>> \o SortedIds(S \ {MinId(S)})

-----------------------------------------------------------------------------
(* Multilingual names (StringUtf8Multilang): a sequence of <<code, string>>. *)

kDefaultCode == "default"

EmptyName == <<>>

Codes(name) == {name[i][1] : i \in DOMAIN name}

\* AddString replaces the string of a code already present, else appends.
AddString(name, code, str) ==
  IF code \in Codes(name)
  THEN [i \in DOMAIN name |-> IF name[i][1] = code THEN <<code, str>> ELSE name[i]]
  ELSE Append(name, <<code, str>>)

GetString(name, code) ==
  IF code \in Codes(name)
  THEN (name[CHOOSE i \in DOMAIN name : name[i][1] = code])[2]
  ELSE ""

\* The name as a map language code -> string.
NameMap(name) == [c \in Codes(name) |-> GetString(name, c)]

RECURSIVE AddAll(_, _)
\* name.ForEach(fn) with fn = result.AddString
AddAll(result, name) ==
  IF name = <<>> THEN result
  ELSE AddAll(AddString(result, name[1][1], name[1][2]), Tail(name))

MergeNames(first, second) == AddAll(AddAll(EmptyName, first), second)

-----------------------------------------------------------------------------
(* The world the builder is run in: regions, positions, and the features    *)
(* the two input files are drawn from.                                      *)

NoRegion == "none"

\* Fields of properties.locales.default.address of each region's record.
RegionAddress ==
  [r \in {"city", "district", "suburb"} |->
     CASE r = "city"     -> {"region", "locality"}
       [] r = "district" -> {"region"}
       [] r = "suburb"   -> {"region", "locality", "suburb"}]

Regions == DOMAIN RegionAddress

\* The regions that contain each position, deepest first.
RegionsAt ==
  [p \in {"pA", "pB", "pC", "pD"} |->
     CASE p = "pA" -> <<"suburb", "city">>
       [] p = "pB" -> <<"city">>
       [] p = "pC" -> <<"district">>
       [] p = "pD" -> <<>>]

Feature(id, geom, name, pts, street) ==
  [osmId |-> id, geom |-> geom, name |-> name, pts |-> pts, street |-> street]

Named(default, en) ==
  IF en = "" THEN <<<<kDefaultCode, default>>>>
  ELSE <<<<kDefaultCode, default>>, <<"en", en>>>>

\* The street features the streets file is drawn from.
StreetFeatures ==
  << Feature(OsmId("OsmWay", 1),  "line",  Named("Main", "a"), <<"pB", "pC">>, ""),
     Feature(OsmId("OsmWay", 2),  "line",  Named("Main", "b"), <<"pA", "pB">>, ""),
     Feature(OsmId("OsmNode", 3), "point", Named("Main", ""),  <<"pB">>, ""),
     Feature(OsmId("OsmWay", 4),  "area",  Named("Main", "a"), <<"pA">>, ""),
     Feature(OsmId("OsmNode", 5), "point", Named("Main", "b"), <<"pC">>, ""),
     Feature(OsmId("OsmWay", 6),  "line",  Named("Oak", ""),   <<"pC", "pD", "pC">>, ""),
     Feature(OsmId("OsmNode", 7), "point", Named("Main", ""),  <<"pA">>, ""),
     Feature(OsmId("OsmWay", 8),  "line",  Named("Oak", ""),   <<"pD">>, ""),
     Feature(OsmId("OsmWay", 9),  "area",  Named("Oak", ""),   <<"pC">>, "") >>

\* The address points the geo objects file is drawn from.
GeoObjects ==
  << Feature(OsmId("OsmNode", 11), "point", Named("1", ""),  <<"pB">>, "Main"),
     Feature(OsmId("OsmNode", 12), "point", Named("2", ""),  <<"pC">>, "Elm"),
     Feature(OsmId("OsmNode", 13), "point", Named("3", ""),  <<"pB">>, ""),
     Feature(OsmId("OsmNode", 14), "point", Named("4", ""),  <<"pD">>, "Main") >>

Files(universe, lo, hi) ==
  {SeqOfPositions(universe, S) :
     S \in {T \in SUBSET DOMAIN universe : Cardinality(T) >= lo /\ Cardinality(T) <= hi}}

\* FeatureBuilder accessors.
GetName(fb) == GetString(fb.name, kDefaultCode)
GetMultilangName(fb) == fb.name
GetMostGenericOsmId(fb) == fb.osmId
GetKeyPoint(fb) == fb.pts[1]
GetGeometryCenter(fb) == fb.pts[1]
GetOuterGeometry(fb) == fb.pts

-----------------------------------------------------------------------------
(* Region ownership. *)

\* needLocality of a FindStreetRegionOwner call that does not pass it.
kNeedLocalityDefault == FALSE

IsStreetAdministratorAlwaysLocality(needLocality, region) ==
  IF "suburb" \in RegionAddress[region] THEN FALSE
  ELSE IF "sublocality" \in RegionAddress[region] THEN FALSE
  ELSE IF "locality" \notin RegionAddress[region] THEN FALSE
  ELSE TRUE

IsStreetAdministratorSuburbAccepted(needLocality, region) ==
  IF needLocality /\ "locality" \notin RegionAddress[region] THEN FALSE
  ELSE TRUE

IsStreetAdministrator(needLocality, region) ==
  IF "suburb" \in RegionAddress[region] THEN FALSE
  ELSE IF "sublocality" \in RegionAddress[region] THEN FALSE
  ELSE IF needLocality /\ "locality" \notin RegionAddress[region] THEN FALSE
  ELSE TRUE

\* m_regionFinder(point, predicate): the deepest region at the point the
\* predicate accepts, NoRegion when there is none.
RegionFinder(point, needLocality) ==
  LET ok == {i \in DOMAIN RegionsAt[point] :
               IsStreetAdministrator(needLocality, RegionsAt[point][i])}
  IN  IF ok = {} THEN NoRegion
      ELSE RegionsAt[point][CHOOSE i \in ok : \A j \in ok : i <= j]

FindStreetRegionOwner(point, needLocality) == RegionFinder(point, needLocality)

RECURSIVE TraceFrom(_, _, _, _)
TraceFrom(pts, i, acc, last) ==
  IF i > Len(pts) THEN acc
  ELSE LET r == FindStreetRegionOwner(pts[i], kNeedLocalityDefault)
       IN  IF r = NoRegion THEN TraceFrom(pts, i + 1, acc, NoRegion)
           ELSE IF r = last
           THEN TraceFrom(pts, i + 1,
                          [acc EXCEPT ![Len(acc)].path = Append(@, pts[i])], r)
           ELSE TraceFrom(pts, i + 1,
                          Append(acc, [region |-> r, path |-> <<pts[i]>>]), r)

\* StreetRegionsTracing: the maximal runs of vertices owned by one region.
StreetRegionsTracing(pts) == TraceFrom(pts, 1, <<>>, NoRegion)

-----------------------------------------------------------------------------
(* Street and its geometry (StreetGeometry). *)

EmptyGeometry == [pin |-> <<>>, lines |-> EmptyMap, areas |-> EmptyMap,
                  bindings |-> EmptyMap]

\* A Street as operator[] of the registry creates it.
NewStreet == [m_name |-> EmptyName, m_geometry |-> EmptyGeometry]

Pin(position, osmId) == [m_position |-> position, m_osmId |-> osmId]

\* The first accepted pin wins.
SetPin(g, pin) == IF g.pin = <<>> THEN [g EXCEPT !.pin = <<pin>>] ELSE g

AddHighwayLine(g, osmId, path) ==
  [g EXCEPT !.lines =
     Put(@, osmId, (IF osmId \in DOMAIN @ THEN @[osmId] ELSE <<>>) \o <<path>>)]

AddHighwayArea(g, osmId, border) ==
  [g EXCEPT !.areas = Put(@, osmId, border)]

AddBinding(g, osmId, point) == [g EXCEPT !.bindings = Put(@, osmId, point)]

GetPin(g) == g.pin

HasHighwayGeometry(g) == DOMAIN g.lines # {} \/ DOMAIN g.areas # {}

\* The explicit pin, else a point of the line, area or binding with the
\* least identity.
GetOrChoosePin(g) ==
  IF g.pin # <<>> THEN g.pin[1]
  ELSE IF DOMAIN g.lines # {}
  THEN LET id == MinId(DOMAIN g.lines) IN Pin(g.lines[id][1][1], id)
  ELSE IF DOMAIN g.areas # {}
  THEN LET id == MinId(DOMAIN g.areas) IN Pin(g.areas[id][1], id)
  ELSE LET id == MinId(DOMAIN g.bindings) IN Pin(g.bindings[id], id)

-----------------------------------------------------------------------------
(* The registry and the identities. *)

StreetKey(regionId, streetName) == <<regionId, streetName>>

InsertStreet(regions, regionId, streetName, multilangName) ==
  LET key == StreetKey(regionId, streetName)
      street == IF key \in DOMAIN regions THEN regions[key] ELSE NewStreet
  IN  Put(regions, key,
          [street EXCEPT !.m_name = MergeNames(multilangName, street.m_name)])

NextOsmSurrogateIdNoIncrement(counter) ==
  [id |-> OsmId("OsmSurrogate", counter + 1), counter |-> counter]

\* The identity returned and the counter left behind.
NextOsmSurrogateId(counter) ==
  [id |-> OsmId("OsmSurrogate", counter + 1), counter |-> counter + 1]

\* std::map::emplace: no effect when the key is present.
Emplace(index, key, value) ==
  IF key \in DOMAIN index THEN index ELSE Put(index, key, value)

\* The state of the builder the per-feature mutation works on.
Builder(regions, index, counter, ids) ==
  [regions |-> regions, index |-> index, counter |-> counter, minted |-> ids]

UsesNativeIdAlways(numSegments) == TRUE

\* pathSegments.size() == 1 ? fb.GetMostGenericOsmId() : NextOsmSurrogateId()
UsesNativeId(numSegments) == numSegments = 1

AttachHighwayNativeId(b, fb, segment, numSegments) ==
  LET key == StreetKey(segment.region, GetName(fb))
  IN  [regions |-> [b.regions EXCEPT ![key].m_geometry =
                      AddHighwayLine(@, GetMostGenericOsmId(fb), segment.path)],
       index   |-> Emplace(b.index, GetMostGenericOsmId(fb), key),
       counter |-> b.counter,
       minted  |-> b.minted]

\* Body of the loop of AddStreetHighway after InsertStreet, for one segment.
AttachHighway(b, fb, segment, numSegments) ==
  LET key == StreetKey(segment.region, GetName(fb))
      next == NextOsmSurrogateId(b.counter)
      native == UsesNativeId(numSegments)
      osmId == IF native THEN GetMostGenericOsmId(fb) ELSE next.id
  IN  [regions |-> [b.regions EXCEPT ![key].m_geometry =
                      AddHighwayLine(@, osmId, segment.path)],
       index   |-> Emplace(b.index, GetMostGenericOsmId(fb), key),
       counter |-> IF native THEN b.counter ELSE next.counter,
       minted  |-> IF native THEN b.minted ELSE Append(b.minted, next.id)]

\* AddStreetArea after InsertStreet.
AttachArea(b, fb, segment) ==
  LET key == StreetKey(segment.region, GetName(fb))
      osmId == GetMostGenericOsmId(fb)
  IN  [b EXCEPT !.regions = [@ EXCEPT ![key].m_geometry =
                               AddHighwayArea(@, osmId, GetOuterGeometry(fb))],
                !.index = Emplace(@, osmId, key)]

AttachPointLastWins(b, fb, segment) ==
  LET key == StreetKey(segment.region, GetName(fb))
      osmId == GetMostGenericOsmId(fb)
  IN  [b EXCEPT !.regions = [@ EXCEPT ![key].m_geometry.pin =
                               <<Pin(GetKeyPoint(fb), osmId)>>],
                !.index = Emplace(@, osmId, key)]

\* AddStreetPoint after InsertStreet.
AttachPoint(b, fb, segment) ==
  LET key == StreetKey(segment.region, GetName(fb))
      osmId == GetMostGenericOsmId(fb)
  IN  [b EXCEPT !.regions = [@ EXCEPT ![key].m_geometry =
                               SetPin(@, Pin(GetKeyPoint(fb), osmId))],
                !.index = Emplace(@, osmId, key)]

\* AddStreetBinding after InsertStreet.
AttachBinding(b, fb, segment) ==
  LET key == StreetKey(segment.region, fb.street)
      next == NextOsmSurrogateId(b.counter)
  IN  [regions |-> [b.regions EXCEPT ![key].m_geometry =
                      AddBinding(@, next.id, GetKeyPoint(fb))],
       index   |-> b.index,
       counter |-> next.counter,
       minted  |-> Append(b.minted, next.id)]

-----------------------------------------------------------------------------
(* Pass 3: WriteAsAggregatedStreet and the transform of                     *)
(* RegenerateAggregatedStreetsFeatures.                                     *)

RECURSIVE AreaFeatures(_, _, _)
AreaFeatures(fb, areas, ids) ==
  IF ids = <<>> THEN <<>>
  ELSE <<[fb EXCEPT !.geom = "area", !.pts = areas[ids[1]]]>>
       \o AreaFeatures(fb, areas, Tail(ids))

RECURSIVE SegmentFeatures(_, _)
SegmentFeatures(fb, segments) ==
  IF segments = <<>> THEN <<>>
  ELSE <<[fb EXCEPT !.geom = "line", !.pts = segments[1]]>>
       \o SegmentFeatures(fb, Tail(segments))

RECURSIVE LineFeatures(_, _, _)
LineFeatures(fb, lines, ids) ==
  IF ids = <<>> THEN <<>>
  ELSE SegmentFeatures(fb, lines[ids[1]]) \o LineFeatures(fb, lines, Tail(ids))

WriteAsAggregatedStreetRawName(fb, street) ==
  LET g == street.m_geometry
      pin == GetOrChoosePin(g)
      named == [fb EXCEPT !.osmId = pin.m_osmId]
      pinPart == IF GetPin(g) # <<>>
                 THEN <<[named EXCEPT !.geom = "point",
                                      !.pts = <<GetPin(g)[1].m_position>>]>>
                 ELSE <<>>
  IN  IF ~HasHighwayGeometry(g) THEN pinPart
      ELSE pinPart
           \o AreaFeatures(named, g.areas, SortedIds(DOMAIN g.areas))
           \o LineFeatures(named, g.lines, SortedIds(DOMAIN g.lines))

WriteAsAggregatedStreetRawId(fb, street) ==
  LET g == street.m_geometry
      named == [fb EXCEPT !.name = street.m_name]
      pinPart == IF GetPin(g) # <<>>
                 THEN <<[named EXCEPT !.geom = "point",
                                      !.pts = <<GetPin(g)[1].m_position>>]>>
                 ELSE <<>>
  IN  IF ~HasHighwayGeometry(g) THEN pinPart
      ELSE pinPart
           \o AreaFeatures(named, g.areas, SortedIds(DOMAIN g.areas))
           \o LineFeatures(named, g.lines, SortedIds(DOMAIN g.lines))

\* The features WriteAsAggregatedStreet collects, in order.
WriteAsAggregatedStreet(fb, street) ==
  LET g == street.m_geometry
      pin == GetOrChoosePin(g)
      named == [fb EXCEPT !.name = street.m_name, !.osmId = pin.m_osmId]
      pinPart == IF GetPin(g) # <<>>
                 THEN <<[named EXCEPT !.geom = "point",
                                      !.pts = <<GetPin(g)[1].m_position>>]>>
                 ELSE <<>>
  IN  IF ~HasHighwayGeometry(g) THEN pinPart
      ELSE pinPart
           \o AreaFeatures(named, g.areas, SortedIds(DOMAIN g.areas))
           \o LineFeatures(named, g.lines, SortedIds(DOMAIN g.lines))

\* The locals of RegenerateAggregatedStreetsFeatures the transform works on.
Regeneration(processed, collected, written) ==
  [processedStreets |-> processed, collector |-> collected, emitted |-> written]

TransformPassThrough(fb, regions, index, r) ==
  LET osmId == GetMostGenericOsmId(fb)
  IN  IF osmId \notin DOMAIN index
      THEN [r EXCEPT !.collector = Append(@, fb)]
      ELSE IF index[osmId] \in r.processedStreets THEN r
      ELSE Regeneration(r.processedStreets \cup {index[osmId]},
                        r.collector \o WriteAsAggregatedStreet(fb, regions[index[osmId]]),
                        Append(r.emitted, index[osmId]))

TransformNoDedup(fb, regions, index, r) ==
  LET osmId == GetMostGenericOsmId(fb)
  IN  IF osmId \notin DOMAIN index THEN r
      ELSE Regeneration(r.processedStreets \cup {index[osmId]},
                        r.collector \o WriteAsAggregatedStreet(fb, regions[index[osmId]]),
                        Append(r.emitted, index[osmId]))

\* The lambda `transform` of RegenerateAggregatedStreetsFeatures.
Transform(fb, regions, index, r) ==
  LET osmId == GetMostGenericOsmId(fb)
  IN  IF osmId \notin DOMAIN index THEN r
      ELSE IF index[osmId] \in r.processedStreets THEN r
      ELSE Regeneration(r.processedStreets \cup {index[osmId]},
                        r.collector \o WriteAsAggregatedStreet(fb, regions[index[osmId]]),
                        Append(r.emitted, index[osmId]))

-----------------------------------------------------------------------------
(* The state machine. *)

Init ==
  /\ phase = "pass1"
  /\ streetsFile \in Files(StreetFeatures, 1, MaxStreets)
  /\ geoObjectsFile \in Files(GeoObjects, 0, MaxGeoObjects)
  /\ pending = DOMAIN streetsFile
  /\ pc = [w \in Workers |-> "idle"]
  /\ cur = [w \in Workers |-> 0]
  /\ segs = [w \in Workers |-> <<>>]
  /\ si = [w \in Workers |-> 0]
  /\ m_updateMutex = NoWorker
  /\ m_regions = EmptyMap
  /\ m_streetFeatures2Streets = EmptyMap
  /\ m_osmSurrogateCounter = 0
  /\ minted = <<>>
  /\ p3_pos = 1
  /\ processedStreets = {}
  /\ collector = <<>>
  /\ emitted = <<>>
  /\ tmpFileExists = FALSE
  /\ collectorFinished = FALSE
  /\ rerun = FALSE
  /\ kv_todo = {}
  /\ streamStreetsKv = <<>>
  /\ regionObject = [region |-> NoRegion, known |-> TRUE]

registry == <<m_regions, m_streetFeatures2Streets, m_osmSurrogateCounter, minted>>
regeneration == <<p3_pos, processedStreets, collector, emitted, tmpFileExists,
                  collectorFinished, rerun>>
export == <<kv_todo, streamStreetsKv, regionObject>>
files == <<streetsFile, geoObjectsFile>>

\* The file the running pass reads, and the feature a worker holds.
CurrentFile == IF phase = "pass2" THEN geoObjectsFile ELSE streetsFile
CurrentFeature(w) == CurrentFile[cur[w]]

ResolvedUnderLock(w, i, segments) ==
  /\ m_updateMutex = NoWorker
  /\ pending' = pending \ {i}
  /\ cur' = [cur EXCEPT ![w] = i]
  /\ segs' = [segs EXCEPT ![w] = segments]
  /\ m_updateMutex' = w
  /\ si' = [si EXCEPT ![w] = 1]
  /\ pc' = [pc EXCEPT ![w] = "locked"]
  /\ UNCHANGED <<phase, files, registry, regeneration, export>>

\* A worker takes feature i with the region(s) resolved for it.
Resolved(w, i, segments) ==
  /\ pending' = pending \ {i}
  /\ cur' = [cur EXCEPT ![w] = i]
  /\ segs' = [segs EXCEPT ![w] = segments]
  /\ pc' = [pc EXCEPT ![w] = "resolved"]
  /\ UNCHANGED <<phase, files, si, m_updateMutex, registry, regeneration, export>>

DroppedAfterNextOsmSurrogateId(w, i) ==
  /\ pending' = pending \ {i}
  /\ m_osmSurrogateCounter' = NextOsmSurrogateId(m_osmSurrogateCounter).counter
  /\ UNCHANGED <<phase, files, pc, cur, segs, si, m_updateMutex, m_regions,
                 m_streetFeatures2Streets, minted, regeneration, export>>

\* The worker's call returns before it takes the mutex.
Dropped(w, i) ==
  /\ pending' = pending \ {i}
  /\ UNCHANGED <<phase, files, pc, cur, segs, si, m_updateMutex, registry,
                 regeneration, export>>

\* AddStreetHighway up to the lock: the line is traced.
TraceHighway(w) ==
  /\ phase = "pass1" /\ pc[w] = "idle"
  /\ \E i \in pending :
       /\ streetsFile[i].geom = "line"
       /\ Resolved(w, i, StreetRegionsTracing(GetOuterGeometry(streetsFile[i])))

\* AddStreetArea up to the lock.
FindAreaOwner(w) ==
  /\ phase = "pass1" /\ pc[w] = "idle"
  /\ \E i \in pending :
       /\ streetsFile[i].geom = "area"
       /\ LET region == FindStreetRegionOwner(GetGeometryCenter(streetsFile[i]), TRUE)
          IN  IF region = NoRegion THEN Dropped(w, i)
              ELSE Resolved(w, i, <<[region |-> region,
                                     path |-> GetOuterGeometry(streetsFile[i])]>>)

\* AddStreetPoint up to the lock.
FindPointOwner(w) ==
  /\ phase = "pass1" /\ pc[w] = "idle"
  /\ \E i \in pending :
       /\ streetsFile[i].geom = "point"
       /\ LET region == FindStreetRegionOwner(GetKeyPoint(streetsFile[i]), TRUE)
          IN  IF region = NoRegion THEN Dropped(w, i)
              ELSE Resolved(w, i, <<[region |-> region,
                                     path |-> <<GetKeyPoint(streetsFile[i])>>]>>)

\* The transform of AssembleBindings and AddStreetBinding up to the lock.
FindBindingOwner(w) ==
  /\ phase = "pass2" /\ pc[w] = "idle"
  /\ \E i \in pending :
       LET fb == geoObjectsFile[i]
           region == FindStreetRegionOwner(GetKeyPoint(fb), kNeedLocalityDefault)
       IN  IF fb.street = "" \/ region = NoRegion THEN Dropped(w, i)
           ELSE Resolved(w, i, <<[region |-> region, path |-> <<GetKeyPoint(fb)>>]>>)

CanLockAlways(mutex) == TRUE

CanLock(mutex) == mutex = NoWorker

\* std::lock_guard<std::mutex> lock{m_updateMutex}
Lock(w) ==
  /\ pc[w] = "resolved"
  /\ CanLock(m_updateMutex)
  /\ m_updateMutex' = w
  /\ pc' = [pc EXCEPT ![w] = "locked"]
  /\ si' = [si EXCEPT ![w] = 1]
  /\ UNCHANGED <<phase, files, pending, cur, segs, registry, regeneration, export>>

\* The name and the multilingual name a worker inserts its feature under.
StreetNameOf(w) ==
  IF phase = "pass2" THEN CurrentFeature(w).street ELSE GetName(CurrentFeature(w))

MultilangNameOf(w) ==
  IF phase = "pass2"
  THEN AddString(EmptyName, kDefaultCode, CurrentFeature(w).street)
  ELSE GetMultilangName(CurrentFeature(w))

\* The call of InsertStreet for the current segment.
Insert(w) ==
  /\ pc[w] = "locked"
  /\ si[w] <= Len(segs[w])
  /\ m_regions' = InsertStreet(m_regions, segs[w][si[w]].region, StreetNameOf(w),
                               MultilangNameOf(w))
  /\ pc' = [pc EXCEPT ![w] = "inserted"]
  /\ UNCHANGED <<phase, files, pending, cur, segs, si, m_updateMutex,
                 m_streetFeatures2Streets, m_osmSurrogateCounter, minted,
                 regeneration, export>>

\* What follows InsertStreet for the current segment.
Attached(w) ==
  LET b == Builder(m_regions, m_streetFeatures2Streets, m_osmSurrogateCounter, minted)
      fb == CurrentFeature(w)
      segment == segs[w][si[w]]
  IN  IF phase = "pass2" THEN AttachBinding(b, fb, segment)
      ELSE IF fb.geom = "area" THEN AttachArea(b, fb, segment)
      ELSE IF fb.geom = "point" THEN AttachPoint(b, fb, segment)
      ELSE AttachHighway(b, fb, segment, Len(segs[w]))

Attach(w) ==
  /\ pc[w] = "inserted"
  /\ m_regions' = Attached(w).regions
  /\ m_streetFeatures2Streets' = Attached(w).index
  /\ m_osmSurrogateCounter' = Attached(w).counter
  /\ minted' = Attached(w).minted
  /\ si' = [si EXCEPT ![w] = @ + 1]
  /\ pc' = [pc EXCEPT ![w] = "locked"]
  /\ UNCHANGED <<phase, files, pending, cur, segs, m_updateMutex, regeneration, export>>

\* The lock guard is destroyed when the function returns.
Unlock(w) ==
  /\ pc[w] = "locked"
  /\ si[w] > Len(segs[w])
  /\ m_updateMutex' = NoWorker
  /\ pc' = [pc EXCEPT ![w] = "idle"]
  /\ cur' = [cur EXCEPT ![w] = 0]
  /\ segs' = [segs EXCEPT ![w] = <<>>]
  /\ si' = [si EXCEPT ![w] = 0]
  /\ UNCHANGED <<phase, files, pending, registry, regeneration, export>>

AllIdleNotAwaited == TRUE

AllIdle == \A w \in Workers : pc[w] = "idle"

\* AssembleStreets returns when every feature was transformed; AssembleBindings starts.
AssembleBindings ==
  /\ phase = "pass1" /\ pending = {} /\ AllIdle
  /\ phase' = "pass2"
  /\ pending' = DOMAIN geoObjectsFile
  /\ UNCHANGED <<files, pc, cur, segs, si, m_updateMutex, registry, regeneration, export>>

\* AssembleBindings returns; RegenerateAggregatedStreetsFeatures starts: the
\* collector opens the temporary file, guarded by aggregatedStreetsTmpFileGuard.
RegenerateAggregatedStreetsFeatures ==
  /\ phase = "pass2" /\ pending = {} /\ AllIdle
  /\ phase' = "pass3"
  /\ tmpFileExists' = TRUE
  /\ UNCHANGED <<files, pending, pc, cur, segs, si, m_updateMutex, registry,
                 p3_pos, processedStreets, collector, emitted, collectorFinished,
                 rerun, export>>

\* One call of the transform by ForEachFromDatRawFormat.
RegenerateStep ==
  /\ phase = "pass3" /\ p3_pos <= Len(streetsFile)
  /\ LET r == Transform(streetsFile[p3_pos], m_regions, m_streetFeatures2Streets,
                        Regeneration(processedStreets, collector, emitted))
     IN  /\ processedStreets' = r.processedStreets
         /\ collector' = r.collector
         /\ emitted' = r.emitted
  /\ p3_pos' = p3_pos + 1
  /\ UNCHANGED <<phase, files, pending, pc, cur, segs, si, m_updateMutex, registry,
                 tmpFileExists, collectorFinished, rerun, export>>

\* collector.Finish(), once ForEachFromDatRawFormat has returned.
CollectorFinish ==
  /\ phase = "pass3" /\ p3_pos > Len(streetsFile) /\ ~collectorFinished
  /\ collectorFinished' = TRUE
  /\ UNCHANGED <<phase, files, pending, pc, cur, segs, si, m_updateMutex, registry,
                 p3_pos, processedStreets, collector, emitted, tmpFileExists,
                 rerun, export>>

\* The rename is the statement after collector.Finish().
CanRenameAnyTime(pos, file, finished) == TRUE

CanRename(pos, file, finished) == pos > Len(file) /\ finished

\* The scope guard: Platform::RemoveFileIfExists on the temporary file.
RemoveFileIfExists(exists) == FALSE

\* base::RenameFileX of the temporary file over the streets file; the guard
\* then finds no temporary file.
RenameFileX ==
  /\ phase = "pass3" /\ CanRename(p3_pos, streetsFile, collectorFinished)
  /\ streetsFile' = collector
  /\ tmpFileExists' = RemoveFileIfExists(FALSE)
  /\ phase' = "done"
  /\ UNCHANGED <<geoObjectsFile, pending, pc, cur, segs, si, m_updateMutex,
                 registry, p3_pos, processedStreets, collector, emitted,
                 collectorFinished, rerun, export>>

\* A write of the collector (Collect or Finish) throws: the function is left
\* before the rename and the scope guard removes the temporary file.
RegenerateFails ==
  /\ phase = "pass3" /\ ~collectorFinished
  /\ phase' = "failed"
  /\ tmpFileExists' = RemoveFileIfExists(tmpFileExists)
  /\ UNCHANGED <<files, pending, pc, cur, segs, si, m_updateMutex, registry,
                 p3_pos, processedStreets, collector, emitted, collectorFinished,
                 rerun, export>>

\* RegenerateAggregatedStreetsFeatures is called again, on the file the
\* previous call left and on the same registry.
RegenerateAgain ==
  /\ phase = "done" /\ ~rerun
  /\ phase' = "pass3"
  /\ rerun' = TRUE
  /\ tmpFileExists' = TRUE
  /\ collectorFinished' = FALSE
  /\ p3_pos' = 1
  /\ processedStreets' = {}
  /\ collector' = <<>>
  /\ emitted' = <<>>
  /\ UNCHANGED <<files, pending, pc, cur, segs, si, m_updateMutex, registry, export>>

\* MakeStreetValue with the id the record is written under: "dref" is the
\* back-reference to the region.
MakeStreetValue(regionId, streetName, pin) ==
  [id |-> pin.m_osmId, dref |-> regionId, name |-> streetName,
   pin |-> pin.m_position]

\* The Street names stored under a region.
RegionStreets(regions, regionId) ==
  {key[2] : key \in {k \in DOMAIN regions : k[1] = regionId}}

RECURSIVE RegionRecords(_, _, _)
RegionRecords(regions, regionId, names) ==
  IF names = {} THEN <<>>
  ELSE LET n == CHOOSE x \in names : TRUE
           street == regions[StreetKey(regionId, n)]
       IN  <<MakeStreetValue(regionId, street.m_name,
                             GetOrChoosePin(street.m_geometry))>>
           \o RegionRecords(regions, regionId, names \ {n})

SaveRegionStreetsKvFeaturesOnly(regions, regionId) ==
  RegionRecords(regions, regionId,
                {n \in RegionStreets(regions, regionId) :
                   LET g == regions[StreetKey(regionId, n)].m_geometry
                   IN  GetPin(g) # <<>> \/ HasHighwayGeometry(g)})

\* SaveRegionStreetsKv: one record per Street of the region.
SaveRegionStreetsKv(regions, regionId) ==
  RegionRecords(regions, regionId, RegionStreets(regions, regionId))

\* CHECK(regionObject, ()).
CheckRegionObjectSkipped(known) == TRUE

CheckRegionObject(known) == known

\* SaveStreetsKv is called on the finished registry.
SaveStreetsKv ==
  /\ phase = "done"
  /\ phase' = "kv"
  /\ kv_todo' = {key[1] : key \in DOMAIN m_regions}
  /\ streamStreetsKv' = <<>>
  /\ UNCHANGED <<files, pending, pc, cur, segs, si, m_updateMutex, registry,
                 regeneration, regionObject>>

\* One iteration of the loop of SaveStreetsKv: the accessor answers, the
\* answer is checked, the region's Streets are written.
SaveStreetsKvStep ==
  /\ phase = "kv"
  /\ \E r \in kv_todo, known \in BOOLEAN :
       /\ regionObject' = [region |-> r, known |-> known]
       /\ IF CheckRegionObject(known)
          THEN /\ streamStreetsKv' = streamStreetsKv \o SaveRegionStreetsKv(m_regions, r)
               /\ kv_todo' = kv_todo \ {r}
               /\ phase' = "kv"
          ELSE /\ phase' = "kvAborted"
               /\ UNCHANGED <<streamStreetsKv, kv_todo>>
  /\ UNCHANGED <<files, pending, pc, cur, segs, si, m_updateMutex, registry,
                 regeneration>>

\* The loop of SaveStreetsKv has visited every region.
SaveStreetsKvReturn ==
  /\ phase = "kv" /\ kv_todo = {}
  /\ phase' = "kvDone"
  /\ UNCHANGED <<files, pending, pc, cur, segs, si, m_updateMutex, registry,
                 regeneration, export>>

Next ==
  \/ \E w \in Workers :
       \/ TraceHighway(w)
       \/ FindAreaOwner(w)
       \/ FindPointOwner(w)
       \/ FindBindingOwner(w)
       \/ Lock(w)
       \/ Insert(w)
       \/ Attach(w)
       \/ Unlock(w)
  \/ AssembleBindings
  \/ RegenerateAggregatedStreetsFeatures
  \/ RegenerateStep
  \/ CollectorFinish
  \/ RenameFileX
  \/ RegenerateFails
  \/ RegenerateAgain
  \/ SaveStreetsKv
  \/ SaveStreetsKvStep
  \/ SaveStreetsKvReturn

Spec == Init /\ [][Next]_vars

-----------------------------------------------------------------------------
(* Notions the properties below are stated with. *)

InCriticalSection(w) == pc[w] \in {"locked", "inserted"}

\* Feature i of the streets file went through AddStreet completely.
Assembled(i) ==
  \/ phase \in {"pass2", "pass3"} /\ ~rerun
  \/ phase = "pass1" /\ i \notin pending /\ \A w \in Workers : cur[w] # i

InputIds == {StreetFeatures[i].osmId : i \in DOMAIN StreetFeatures}
              \cup {GeoObjects[i].osmId : i \in DOMAIN GeoObjects}

Indexed(fb) == GetMostGenericOsmId(fb) \in DOMAIN m_streetFeatures2Streets

StreetOf(fb) == m_streetFeatures2Streets[GetMostGenericOsmId(fb)]

\* The identities under which pass 1 added a contribution to a Street.
ContributionIds(street) ==
  DOMAIN street.m_geometry.lines \cup DOMAIN street.m_geometry.areas
    \cup {street.m_geometry.pin[n].m_osmId : n \in DOMAIN street.m_geometry.pin}

\* The region(s) AddStreet or AddStreetBinding resolves for a feature.
SegmentsOf(fb, pass) ==
  IF pass = "pass2"
  THEN LET region == FindStreetRegionOwner(GetKeyPoint(fb), kNeedLocalityDefault)
       IN  IF fb.street = "" \/ region = NoRegion THEN <<>>
           ELSE <<[region |-> region, path |-> <<GetKeyPoint(fb)>>]>>
  ELSE IF fb.geom = "line" THEN StreetRegionsTracing(GetOuterGeometry(fb))
  ELSE LET region == FindStreetRegionOwner(fb.pts[1], TRUE)
       IN  IF region = NoRegion THEN <<>>
           ELSE <<[region |-> region, path |-> fb.pts]>>

RECURSIVE AddSegments(_, _, _, _, _)
\* The per-feature mutation as one step, from segment j on.
AddSegments(b, fb, pass, segments, j) ==
  IF j > Len(segments) THEN b
  ELSE LET name == IF pass = "pass2" THEN fb.street ELSE GetName(fb)
           multilang == IF pass = "pass2"
                        THEN AddString(EmptyName, kDefaultCode, fb.street)
                        ELSE GetMultilangName(fb)
           b1 == [b EXCEPT !.regions =
                    InsertStreet(@, segments[j].region, name, multilang)]
           b2 == IF pass = "pass2" THEN AttachBinding(b1, fb, segments[j])
                 ELSE IF fb.geom = "area" THEN AttachArea(b1, fb, segments[j])
                 ELSE IF fb.geom = "point" THEN AttachPoint(b1, fb, segments[j])
                 ELSE AttachHighway(b1, fb, segments[j], Len(segments))
       IN  AddSegments(b2, fb, pass, segments, j + 1)

RECURSIVE AddInFileOrder(_, _, _)
\* The builder after the features of a file were processed one by one, in file order.
AddInFileOrder(b, file, pass) ==
  IF file = <<>> THEN b
  ELSE AddInFileOrder(AddSegments(b, file[1], pass, SegmentsOf(file[1], pass), 1),
                      Tail(file), pass)

SequentialRegistry ==
  AddInFileOrder(AddInFileOrder(Builder(EmptyMap, EmptyMap, 0, <<>>),
                                streetsFile, "pass1"),
                 geoObjectsFile, "pass2").regions

\* An identity with the number of a surrogate identity left out.
Anonymous(id) == IF IsSurrogate(id) THEN "surrogate" ELSE id

\* The contributions of a map identity -> geometry, surrogate numbers ignored.
Contributions(m) ==
  {<<Anonymous(id), m[id],
     Cardinality({o \in DOMAIN m : Anonymous(o) = Anonymous(id) /\ m[o] = m[id]})>> :
     id \in DOMAIN m}

Content(regions) ==
  [key \in DOMAIN regions |->
     [name  |-> NameMap(regions[key].m_name),
      pin   |-> regions[key].m_geometry.pin,
      lines |-> Contributions(regions[key].m_geometry.lines),
      areas |-> Contributions(regions[key].m_geometry.areas)]]

RECURSIVE ExpectedOutput(_)
\* What pass 3 has to have collected after the first n features of the stream
\* when only the first feature of each Street writes.
ExpectedOutput(n) ==
  IF n = 0 THEN <<>>
  ELSE LET fb == streetsFile[n]
           first == /\ Indexed(fb)
                    /\ \A j \in 1..(n - 1) :
                         Indexed(streetsFile[j]) => StreetOf(streetsFile[j]) # StreetOf(fb)
       IN  ExpectedOutput(n - 1)
           \o (IF first THEN WriteAsAggregatedStreet(fb, m_regions[StreetOf(fb)])
               ELSE <<>>)

-----------------------------------------------------------------------------
(* Properties. *)

\* C1 (as stated): in pass 3 every feature of the stream whose identity has no
\* entry in the reverse index is passed through to the output as read.
C1_AbsentPassedThrough ==
  phase = "pass3" =>
    \A i \in 1..(p3_pos - 1) :
      ~Indexed(streetsFile[i]) =>
        \E j \in DOMAIN collector : collector[j] = streetsFile[i]

\* C1 (amended): in pass 3 a feature of the stream whose identity has no entry
\* in the reverse index is dropped: the step that handles it collects nothing.
C1_AbsentDropped ==
  [][(phase = "pass3" /\ p3_pos' = p3_pos + 1 /\ ~Indexed(streetsFile[p3_pos]))
       => (collector' = collector /\ processedStreets' = processedStreets)]_vars

C1_Witness ==
  /\ phase = "pass3"
  /\ \E i \in 1..(p3_pos - 1) : ~Indexed(streetsFile[i])
  /\ collector # <<>>

\* C2: when no feature is in work, the reverse index has an entry for every
\* identity, native or surrogate, under which a contribution was added to a
\* Street, and the entry points at that Street.
C2_EveryContributionIndexed ==
  AllIdle =>
    \A key \in DOMAIN m_regions :
      \A id \in ContributionIds(m_regions[key]) :
        /\ id \in DOMAIN m_streetFeatures2Streets
        /\ m_streetFeatures2Streets[id] = key

\* C3: in pass 3 each Street is written at most once, by the first feature of
\* the stream that maps to it; every later feature mapping to it writes nothing.
C3_StreetEmittedOnce ==
  phase = "pass3" =>
    /\ NoDup(emitted)
    /\ Range(emitted) = processedStreets
    /\ collector = ExpectedOutput(p3_pos - 1)

C3_Witness ==
  /\ phase = "pass3"
  /\ \E i, j \in 1..(p3_pos - 1) :
       /\ i < j
       /\ Indexed(streetsFile[i]) /\ Indexed(streetsFile[j])
       /\ StreetOf(streetsFile[i]) = StreetOf(streetsFile[j])

\* C4: a line whose tracing gives k segments has each segment in the Street of
\* (the segment's region, the line's name), as a line keyed by the native
\* identity when k = 1 and by k different surrogate identities when k >= 2;
\* the native identity keys no line when k >= 2.
C4_LineKeys ==
  phase \in {"pass1", "pass2", "pass3"} =>
    \A i \in DOMAIN streetsFile :
      (streetsFile[i].geom = "line" /\ Assembled(i)) =>
        LET fb == streetsFile[i]
            tr == StreetRegionsTracing(GetOuterGeometry(fb))
            k == Len(tr)
            key(j) == StreetKey(tr[j].region, GetName(fb))
            lines(j) == m_regions[key(j)].m_geometry.lines
            sur(n) == OsmId("OsmSurrogate", n)
        IN  /\ \A j \in 1..k : key(j) \in DOMAIN m_regions
            /\ k = 1 => /\ fb.osmId \in DOMAIN lines(1)
                        /\ lines(1)[fb.osmId] = <<tr[1].path>>
            /\ k >= 2 =>
                 /\ \A s \in DOMAIN m_regions :
                      fb.osmId \notin DOMAIN m_regions[s].m_geometry.lines
                 /\ \E f \in [1..k -> 1..m_osmSurrogateCounter] :
                      /\ \A a, c \in 1..k : a # c => f[a] # f[c]
                      /\ \A j \in 1..k :
                           /\ sur(f[j]) \in DOMAIN lines(j)
                           /\ lines(j)[sur(f[j])] = <<tr[j].path>>

C4_Witness ==
  /\ phase = "pass1"
  /\ \E i \in DOMAIN streetsFile :
       /\ streetsFile[i].geom = "line" /\ Assembled(i)
       /\ Len(StreetRegionsTracing(GetOuterGeometry(streetsFile[i]))) >= 2
  /\ \E i \in DOMAIN streetsFile :
       /\ streetsFile[i].geom = "line" /\ Assembled(i)
       /\ Len(StreetRegionsTracing(GetOuterGeometry(streetsFile[i]))) = 1

\* C5: no two calls of NextOsmSurrogateId return the same identity, every
\* identity returned has the surrogate tag and differs from every native
\* identity, and the counter only grows, in a step of the worker that holds
\* the mutex.
C5_SurrogateIdsUnique ==
  /\ [](/\ NoDup(minted)
        /\ Len(minted) = m_osmSurrogateCounter
        /\ \A n \in DOMAIN minted : IsSurrogate(minted[n]) /\ minted[n] \notin InputIds)
  /\ [][m_osmSurrogateCounter' # m_osmSurrogateCounter =>
          /\ m_osmSurrogateCounter' > m_osmSurrogateCounter
          /\ \E w \in Workers :
               m_updateMutex = w /\ InCriticalSection(w) /\ pc'[w] # pc[w]]_vars

C5_Witness ==
  /\ phase = "pass2"
  /\ Len(minted) >= 3
  /\ \E w \in Workers : pc[w] = "resolved"

\* C6: no two workers are inside their per-feature mutation at once, the one
\* inside holds the mutex, and between a worker's InsertStreet and what follows
\* it nobody else changes the registry or the reverse index.
C6_OneCriticalSection ==
  /\ [](\A v, w \in Workers :
          /\ InCriticalSection(w) => m_updateMutex = w
          /\ (InCriticalSection(v) /\ InCriticalSection(w)) => v = w)
  /\ [][\A w \in Workers :
          (pc[w] = "inserted" /\ registry' # registry) => pc'[w] = "locked"]_vars

C6_Witness ==
  \E v, w \in Workers : pc[v] = "inserted" /\ pc[w] = "resolved"

\* C7: when passes 1 and 2 are over, the content of the registry is the one
\* processing the features one by one in file order gives, whatever the order
\* and interleaving they were processed in.
C7_OrderIndependent ==
  (phase = "pass3" /\ ~rerun) => Content(m_regions) = Content(SequentialRegistry)

\* C8: InsertStreet for A then B leaves the Street with the same name map as
\* InsertStreet for B then A, for any two features of the stream with the same
\* name, in any region.
C8_MergeCommutative ==
  phase = "pass1" =>
    \A i, j \in DOMAIN streetsFile : \A r \in Regions :
      LET A == streetsFile[i]
          B == streetsFile[j]
          key == StreetKey(r, GetName(A))
          AB == InsertStreet(InsertStreet(m_regions, r, GetName(A), GetMultilangName(A)),
                             r, GetName(B), GetMultilangName(B))
          BA == InsertStreet(InsertStreet(m_regions, r, GetName(B), GetMultilangName(B)),
                             r, GetName(A), GetMultilangName(A))
      IN  GetName(A) = GetName(B) => NameMap(AB[key].m_name) = NameMap(BA[key].m_name)

\* C9: after InsertStreet the Street holds the incoming string for every code
\* of the incoming name, and its previous string for every other code.
C9_IncomingOverwrites ==
  [][\A w \in Workers :
       (pc[w] = "locked" /\ pc'[w] = "inserted") =>
         LET key == StreetKey(segs[w][si[w]].region, StreetNameOf(w))
             incoming == MultilangNameOf(w)
             before == IF key \in DOMAIN m_regions THEN m_regions[key].m_name
                       ELSE EmptyName
             after == m_regions'[key].m_name
         IN  /\ \A c \in Codes(incoming) : GetString(after, c) = GetString(incoming, c)
             /\ \A c \in Codes(before) \ Codes(incoming) :
                  GetString(after, c) = GetString(before, c)]_vars

\* C10: a Street with a binding, an area or a pin is keyed by a region whose
\* address has a locality.
C10_LocalityOwners ==
  \A key \in DOMAIN m_regions :
    LET g == m_regions[key].m_geometry
    IN  (DOMAIN g.bindings # {} \/ DOMAIN g.areas # {} \/ g.pin # <<>>)
          => "locality" \in RegionAddress[key[1]]

\* The regions at a point whose address has neither suburb nor sublocality,
\* deepest first.
BareCandidates(point) ==
  SelectSeq(RegionsAt[point],
            LAMBDA r : {"suburb", "sublocality"} \cap RegionAddress[r] = {})

\* C11: every vertex of an assembled line whose deepest region without suburb
\* and sublocality has no locality either is on a line of the Street of (that
\* region, the line's name): line tracing accepts a bare administrative region.
C11_LineNeedsNoLocality ==
  \A i \in DOMAIN streetsFile :
    (streetsFile[i].geom = "line" /\ Assembled(i)) =>
      \A n \in DOMAIN streetsFile[i].pts :
        LET point == streetsFile[i].pts[n]
            bare == BareCandidates(point)
            key == StreetKey(bare[1], GetName(streetsFile[i]))
        IN  (bare # <<>> /\ "locality" \notin RegionAddress[bare[1]]) =>
              /\ key \in DOMAIN m_regions
              /\ \E id \in DOMAIN m_regions[key].m_geometry.lines :
                   \E k \in DOMAIN m_regions[key].m_geometry.lines[id] :
                     point \in Range(m_regions[key].m_geometry.lines[id][k])

C11_Witness ==
  /\ phase = "pass2"
  /\ \E key \in DOMAIN m_regions :
       /\ "locality" \notin RegionAddress[key[1]]
       /\ DOMAIN m_regions[key].m_geometry.lines # {}

\* The features of the running pass's file that are no longer pending or in work.
Processed ==
  {i \in DOMAIN CurrentFile : i \notin pending /\ \A w \in Workers : cur[w] # i}

\* C12: a feature with unresolved ownership (no region for an area's center, a
\* point or a binding's location, zero segments for a line) changes nothing in
\* the builder: the step that takes it and every step of the worker holding it
\* leave the registry, the reverse index and the surrogate counter as they
\* are, and its identity keys no contribution and no reverse-index entry.
C12_UnresolvedLeavesBuilder ==
  /\ [](phase \in {"pass1", "pass2"} =>
          \A i \in Processed :
            SegmentsOf(CurrentFile[i], phase) = <<>> =>
              /\ ~Indexed(CurrentFile[i])
              /\ \A key \in DOMAIN m_regions :
                   CurrentFile[i].osmId \notin ContributionIds(m_regions[key]))
  /\ [][(phase \in {"pass1", "pass2"} /\
           \/ \E i \in pending \ pending' :
                SegmentsOf(CurrentFile[i], phase) = <<>>
           \/ \E w \in Workers :
                /\ pc[w] # "idle" /\ segs[w] = <<>>
                /\ <<pc[w], cur[w], si[w]>>' # <<pc[w], cur[w], si[w]>>)
        => registry' = registry]_vars

C12_Witness ==
  /\ phase = "pass2" /\ pending = {} /\ AllIdle
  /\ \E i, j \in DOMAIN streetsFile :
       /\ streetsFile[i].geom = "line" /\ SegmentsOf(streetsFile[i], "pass1") = <<>>
       /\ streetsFile[j].geom = "area" /\ SegmentsOf(streetsFile[j], "pass1") = <<>>
  /\ \E i \in DOMAIN geoObjectsFile :
       /\ geoObjectsFile[i].street # ""
       /\ SegmentsOf(geoObjectsFile[i], "pass2") = <<>>
  /\ DOMAIN m_regions # {}

\* C13: during pass 3 the output is in the temporary file; the streets file is
\* replaced only by the rename, which happens only after every feature of the
\* stream was handled and the collector has finished; when pass 3 fails before
\* that, the streets file is as it was and the temporary file is removed.
C13_AtomicOutput ==
  /\ [](/\ phase = "pass3" => tmpFileExists
        /\ phase = "failed" => ~tmpFileExists)
  /\ [][/\ (phase = "pass3" /\ phase' = "done") =>
             /\ p3_pos > Len(streetsFile) /\ collectorFinished
             /\ streetsFile' = collector
        /\ (phase = "pass3" /\ phase' # "done") => streetsFile' = streetsFile]_vars

C13_Witness ==
  /\ phase = "failed"
  /\ collector # <<>>
  /\ collector # streetsFile

\* C14: running pass 3 again on the file the previous run left, with the same
\* registry, collects the same features as the previous run did.
C14_RerunSameOutput ==
  (phase = "pass3" /\ rerun /\ collectorFinished) => collector = streetsFile

\* The features the last transform call collected.
LastBatch == SubSeq(collector', Len(collector) + 1, Len(collector'))

\* The segments of the line contributions of a geometry.
LineSegments(g) ==
  UNION {{<<id, k>> : k \in DOMAIN g.lines[id]} : id \in DOMAIN g.lines}

CountOf(batch, geom) == Cardinality({n \in DOMAIN batch : batch[n].geom = geom})

\* C15: the step of pass 3 that emits a Street collects one point feature at
\* the pin when the Street has an explicit pin and none otherwise, one area
\* feature for each area contribution and one line feature for each segment of
\* each line contribution, every one of them named with the Street's name map.
C15_EmittedFeatures ==
  [][(phase = "pass3" /\ emitted' # emitted) =>
       LET street == m_regions[emitted'[Len(emitted')]]
           g == street.m_geometry
       IN  /\ \A n \in DOMAIN LastBatch : LastBatch[n].name = street.m_name
           /\ CountOf(LastBatch, "point") = Len(g.pin)
           /\ \A n \in DOMAIN LastBatch :
                LastBatch[n].geom = "point" =>
                  LastBatch[n].pts = <<g.pin[1].m_position>>
           /\ CountOf(LastBatch, "area") = Cardinality(DOMAIN g.areas)
           /\ \A id \in DOMAIN g.areas :
                \E n \in DOMAIN LastBatch :
                  LastBatch[n].geom = "area" /\ LastBatch[n].pts = g.areas[id]
           /\ CountOf(LastBatch, "line") = Cardinality(LineSegments(g))
           /\ \A s \in LineSegments(g) :
                \E n \in DOMAIN LastBatch :
                  LastBatch[n].geom = "line" /\ LastBatch[n].pts = g.lines[s[1]][s[2]]
           /\ Len(LastBatch) = CountOf(LastBatch, "point") + CountOf(LastBatch, "area")
                                 + CountOf(LastBatch, "line")]_vars

\* A Street with a pin, an area and a line segment was emitted, under a name
\* map the raw feature did not have.
C15_Witness ==
  /\ phase = "pass3" /\ ~rerun
  /\ \E n \in DOMAIN emitted :
       LET g == m_regions[emitted[n]].m_geometry
       IN  /\ g.pin # <<>>
           /\ DOMAIN g.areas # {}
           /\ Cardinality(LineSegments(g)) >= 1
           /\ \E i \in DOMAIN streetsFile :
                /\ Indexed(streetsFile[i]) /\ StreetOf(streetsFile[i]) = emitted[n]
                /\ streetsFile[i].name # m_regions[emitted[n]].m_name

\* The (region, Street) pair a record stands for.
RecordKey(record) == StreetKey(record.dref, GetString(record.name, kDefaultCode))

RecordsOf(key) == {n \in DOMAIN streamStreetsKv : RecordKey(streamStreetsKv[n]) = key}

\* C16: the export writes a record only for a (region, Street) pair of the
\* registry and never two for one pair; when it has returned there is exactly
\* one record for every pair, with the Street's name and chosen pin and with
\* the region the Street is stored under as its back-reference.
C16_OneRecordPerStreet ==
  /\ \A n \in DOMAIN streamStreetsKv :
       LET key == RecordKey(streamStreetsKv[n])
       IN  /\ key \in DOMAIN m_regions
           /\ RecordsOf(key) = {n}
           /\ streamStreetsKv[n] =
                MakeStreetValue(key[1], m_regions[key].m_name,
                                GetOrChoosePin(m_regions[key].m_geometry))
  /\ phase = "kvDone" => \A key \in DOMAIN m_regions : RecordsOf(key) # {}

\* A road split between two regions has a record in each, and a Street made of
\* bindings only has one too.
C16_Witness ==
  /\ phase = "kvDone"
  /\ \E m, n \in DOMAIN streamStreetsKv :
       /\ streamStreetsKv[m].dref # streamStreetsKv[n].dref
       /\ RecordKey(streamStreetsKv[m])[2] = RecordKey(streamStreetsKv[n])[2]
       /\ \E i \in DOMAIN StreetFeatures :
            LET fb == StreetFeatures[i]
                tr == StreetRegionsTracing(GetOuterGeometry(fb))
            IN  /\ fb.geom = "line" /\ Indexed(fb) /\ Len(tr) = 2
                /\ tr[1].region = streamStreetsKv[m].dref
                /\ tr[2].region = streamStreetsKv[n].dref
                /\ GetName(fb) = RecordKey(streamStreetsKv[m])[2]
  /\ \E n \in DOMAIN streamStreetsKv :
       LET g == m_regions[RecordKey(streamStreetsKv[n])].m_geometry
       IN  GetPin(g) = <<>> /\ ~HasHighwayGeometry(g) /\ DOMAIN g.bindings # {}

\* C17 (as stated): the export runs to completion whatever the accessor answers.
C17_NeverAborts == phase # "kvAborted"

\* C17 (amended): the export aborts exactly when the accessor has no record for
\* the region it is asked about, before anything of that region is written;
\* it returns only when the accessor had a record for every region.
C17_AbortsOnMissingRegion ==
  /\ [](/\ phase = "kvAborted" =>
             ~regionObject.known /\ regionObject.region \in kv_todo
        /\ phase = "kvDone" => regionObject.known)
  /\ [][(phase = "kv" /\ regionObject' # regionObject) =>
          IF regionObject'.known
          THEN phase' = "kv" /\ kv_todo' = kv_todo \ {regionObject'.region}
          ELSE phase' = "kvAborted" /\ streamStreetsKv' = streamStreetsKv]_vars

C17_Witness ==
  /\ phase = "kvAborted"
  /\ streamStreetsKv # <<>>

PinOf(regions, key) ==
  IF key \in DOMAIN regions THEN regions[key].m_geometry.pin ELSE <<>>

C19_RegistryFinalInPass3 ==
  /\ [](phase \notin {"pass1", "pass2"} =>
          /\ \A w \in Workers : pc[w] = "idle" /\ cur[w] = 0
          /\ pending = {}
          /\ m_updateMutex = NoWorker)
  /\ [][phase = "pass3" => registry' = registry]_vars

C19_Witness ==
  /\ phase = "pass3" /\ ~rerun
  /\ collector # <<>>
  /\ DOMAIN geoObjectsFile # {}
  /\ m_osmSurrogateCounter > 0

\* C20: a worker's region lookup, or the tracing of its line, is over before
\* it takes the registry lock, and a worker that holds the lock takes no
\* feature from the input and resolves nothing until it has released it.
C20_ResolveOutsideLock ==
  [][\A w \in Workers :
       /\ (cur'[w] # cur[w] /\ cur'[w] # 0) =>
            /\ m_updateMutex # w /\ m_updateMutex' # w
            /\ pc[w] = "idle" /\ pc'[w] = "resolved"
       /\ (m_updateMutex = w /\ pc'[w] # pc[w]) =>
            /\ pending' = pending /\ files' = files
            /\ segs'[w] = segs[w] \/ (m_updateMutex' = NoWorker /\ segs'[w] = <<>>)]_vars

C20_Witness ==
  \E v, w \in Workers :
    /\ m_updateMutex = v /\ v # w
    /\ pc[w] = "resolved" /\ phase = "pass1"
    /\ CurrentFeature(w).geom = "line" /\ Len(segs[w]) = 2

\* C21: no Street of the registry is keyed by a region whose address has a
\* suburb or a sublocality, whatever contributed to it.
C21_NoSuburbOwner ==
  \A key \in DOMAIN m_regions :
    {"suburb", "sublocality"} \cap RegionAddress[key[1]] = {}

\* The deepest region at the point has a suburb in its address.
InSuburb(point) ==
  /\ RegionsAt[point] # <<>>
  /\ "suburb" \in RegionAddress[RegionsAt[point][1]]

\* A line, and a point or an area, lying in a suburb were given to Streets.
C21_Witness ==
  /\ phase = "pass2"
  /\ \E i, j \in DOMAIN streetsFile :
       /\ streetsFile[i].geom = "line" /\ streetsFile[j].geom # "line"
       /\ InSuburb(streetsFile[i].pts[1]) /\ InSuburb(streetsFile[j].pts[1])
       /\ Indexed(streetsFile[i]) /\ Indexed(streetsFile[j])

\* A Street that received a line, an area or a pin.
HasFeatureContribution(street) ==
  GetPin(street.m_geometry) # <<>> \/ HasHighwayGeometry(street.m_geometry)

\* C22: when pass 3 has scanned the stream pass 1 ingested, every Street that
\* received a line, an area or a point in pass 1 was emitted.
C22_EveryStreetEmitted ==
  (phase = "pass3" /\ ~rerun /\ collectorFinished) =>
    \A key \in DOMAIN m_regions :
      HasFeatureContribution(m_regions[key]) => key \in Range(emitted)

\* The number of features written for a Street.
BatchSize(street) ==
  Len(street.m_geometry.pin) + Cardinality(DOMAIN street.m_geometry.areas)
    + Cardinality(LineSegments(street.m_geometry))

RECURSIVE BatchEnd(_)
\* The position in the collector of the last feature of the n-th emitted Street.
BatchEnd(n) ==
  IF n = 0 THEN 0 ELSE BatchEnd(n - 1) + BatchSize(m_regions[emitted[n]])

\* C23: every feature pass 3 collected for a Street carries the identity of
\* the Street's chosen pin, and the record the export writes for that Street
\* is written under the same identity.
C23_SameIdentity ==
  \A n \in DOMAIN emitted :
    LET pin == GetOrChoosePin(m_regions[emitted[n]].m_geometry)
    IN  /\ \A pos \in (BatchEnd(n - 1) + 1)..BatchEnd(n) :
             collector[pos].osmId = pin.m_osmId
        /\ \A r \in RecordsOf(emitted[n]) :
             /\ streamStreetsKv[r].id = pin.m_osmId
             /\ \A pos \in (BatchEnd(n - 1) + 1)..BatchEnd(n) :
                  collector[pos].osmId = streamStreetsKv[r].id

\* A Street whose chosen pin is a surrogate identity, written as more than one
\* feature, has its record.
C23_Witness ==
  /\ phase = "kvDone" /\ ~rerun
  /\ \E n \in DOMAIN emitted :
       /\ IsSurrogate(GetOrChoosePin(m_regions[emitted[n]].m_geometry).m_osmId)
       /\ BatchSize(m_regions[emitted[n]]) >= 2
       /\ RecordsOf(emitted[n]) # {}

\* The Streets that have something a pin can be chosen from.
PinnedStreets ==
  {key \in DOMAIN m_regions :
     \/ HasFeatureContribution(m_regions[key])
     \/ DOMAIN m_regions[key].m_geometry.bindings # {}}

\* C24: two different Streets never have chosen pins with the same identity,
\* and no two records of the export are written under the same identity.
C24_DistinctPinIds ==
  /\ \A k1, k2 \in PinnedStreets :
       k1 # k2 => GetOrChoosePin(m_regions[k1].m_geometry).m_osmId
                    # GetOrChoosePin(m_regions[k2].m_geometry).m_osmId
  /\ \A m, n \in DOMAIN streamStreetsKv :
       m # n => streamStreetsKv[m].id # streamStreetsKv[n].id

\* Records of a split road, of a Street with a native pin and of a Street made
\* of bindings were written.
C24_Witness ==
  /\ phase = "kvDone"
  /\ Len(streamStreetsKv) >= 3
  /\ \E m, n \in DOMAIN streamStreetsKv :
       /\ m # n
       /\ IsSurrogate(streamStreetsKv[m].id) /\ IsSurrogate(streamStreetsKv[n].id)
  /\ \E n \in DOMAIN streamStreetsKv : ~IsSurrogate(streamStreetsKv[n].id)

====
